---- MODULE Spec2Model ----
(***************************************************************************)
(* airmail/src/directory.rs: a read-only tantivy Directory served over     *)
(* HTTP range requests, with a process-wide LRU chunk cache (LRU_CACHE)    *)
(* and a process-wide length table (LENGTHS).                              *)
(*                                                                         *)
(* The state is the two shared tables, their mutexes (holder, and for the  *)
(* cache mutex whether it is poisoned), and for every engine thread the    *)
(* position inside the call it is making, its locals, the HTTP exchange in *)
(* flight, the value it last returned and the writer it holds.             *)
(* A panic ends the thread; a panic while the cache mutex is held poisons  *)
(* it, after which every `cache.lock().unwrap()` panics as well.           *)
(*                                                                         *)
(* Scaling: CHUNK_SIZE is 32768 and the cache capacity 131072 in the       *)
(* source; the model keeps the arithmetic and uses 2 and 2, so that files  *)
(* of a few bytes span several chunks and overflow the cache.              *)
(* A byte of the origin is modelled by its place <<path, offset>>, so any  *)
(* byte returned from the wrong place or the wrong file is visible.        *)
(***************************************************************************)
EXTENDS Integers, Sequences, FiniteSets, TLC

CHUNK_SIZE == 2

LRU_CAPACITY == 2

MaxLen == 4

Threads == {"t1", "t2", "t3"}

\* Two of the threads, where two callers at once show all there is to see.
Pair == {"t1", "t2"}

NoThread == "none"

Paths == {"a", "b"}

RESERVED == ".tantivy-meta.lock"

AllPaths == Paths \cup {RESERVED}

BaseUrl == "http://origin"

VARIABLES
  origin,     \* the remote files: path -> [present, len]; never changes
  lru,        \* LRU_CACHE: sequence of [key, data], least recently used first
  cacheLock,  \* the thread holding the LRU_CACHE mutex, or NoThread
  poisoned,   \* the LRU_CACHE mutex is poisoned
  lengths,    \* LENGTHS: url -> length, a function on the urls inserted
  lengthsLock,\* the thread holding the LENGTHS mutex, or NoThread
  writer,     \* per thread: the WritePtr open_write gave it, if any
  pc,         \* per thread: position in its call
  call,       \* per thread: the call being made (or last made): op, path, s, e
  range,      \* per thread: the `range` read_bytes was given, <<start, end>>
  chunk,      \* per thread: the loop variable `chunk`
  acc,        \* per thread: accumulated_chunks / data
  resp,       \* per thread: the request in flight
  ret,        \* per thread: what the last call returned
  reqs,       \* per thread: HTTP requests sent by the current call
  fault,      \* per thread: the current call met a transport/status fault
  note,       \* per thread: what held when the current call began
  touch,      \* cache keys by last get/put, oldest first (keys in the cache)
  evicted,    \* the key the last put evicted, <<>> when none
  probes      \* per url: HEAD probes sent so far

vars == <<origin, lengthsLock, writer, lru, cacheLock, poisoned, lengths, pc,
          call, range, chunk, acc, resp, ret, reqs, fault, note, touch, evicted,
          probes>>

----------------------------------------------------------------------------
(* Small helpers. *)

Min(a, b) == IF a < b THEN a ELSE b

\* Rust's v[a..b] on a Vec: the elements a, ..., b-1 (0-based).
Slice(v, a, b) == SubSeq(v, a + 1, b)

\* v[a..b] panics unless a <= b <= v.len().
SliceOk(v, a, b) == a <= b /\ b <= Len(v)

----------------------------------------------------------------------------
(* The origin: an HTTP server with standard range-request semantics.       *)

\* HttpDirectory::format_url: the base and the path joined by one '/'
\* (both branches produce base + '/' + path for a base given either way).
FormatUrl(path) == <<BaseUrl, "/", path>>

UrlPath(url) == url[3]

Urls == {FormatUrl(p) : p \in AllPaths}

OriginByte(path, o) == <<path, o>>

\* Origin bytes [a, b) of the file at `path`.
OriginBytes(path, a, b) == [i \in 1..(b - a) |-> OriginByte(path, a + i - 1)]

OriginLen(path) == origin[path].len

\* GET with "Range: bytes=first-last" (both ends inclusive): 404 for a
\* missing file, 416 when first is at or past the end of the file, else 206
\* with the bytes first .. min(last, len - 1).
OriginGet(url, first, last) ==
  LET p == UrlPath(url) IN
  IF ~origin[p].present THEN [status |-> 404, body |-> <<>>]
  ELSE IF first >= OriginLen(p) \/ last < first
       THEN [status |-> 416, body |-> <<>>]
       ELSE [status |-> 206,
             body |-> OriginBytes(p, first, Min(last + 1, OriginLen(p)))]

\* A usize in decimal, as the Content-Length header carries it.
RECURSIVE Digits(_)
Digits(n) == IF n < 10 THEN <<n>> ELSE Append(Digits(n \div 10), (n % 10))

\* str::parse::<usize> of a header value: the number, or -1 for a parse
\* error (an empty value, or a character that is no digit).
RECURSIVE ParseFrom(_, _, _)
ParseFrom(txt, i, n) ==
  IF i > Len(txt) THEN n
  ELSE IF txt[i] \in 0..9 THEN ParseFrom(txt, i + 1, (10 * n) + txt[i])
  ELSE -1

ParseUsize(txt) == IF Len(txt) = 0 THEN -1 ELSE ParseFrom(txt, 1, 0)

\* HEAD: 200 with Content-Length for a file of the origin, 404 otherwise.
OriginHead(url) ==
  LET p == UrlPath(url) IN
  IF origin[p].present
  THEN [status |-> 200, hasLen |-> TRUE, contentLength |-> Digits(OriginLen(p))]
  ELSE [status |-> 404, hasLen |-> FALSE, contentLength |-> <<>>]

----------------------------------------------------------------------------
(* lru::LruCache<CacheKey, Vec<u8>>, as read_bytes uses it.                *)

\* A key that leaves the chunk index out.
CacheKeyNoChunk(url, c) == <<url, url, 0>>

\* CacheKey { base_url: url, path: url, chunk }
CacheKey(url, c) == <<url, url, c>>

LruKeys(cache) == {cache[i].key : i \in 1..Len(cache)}

LruIndex(cache, key) == CHOOSE i \in 1..Len(cache) : cache[i].key = key

LruRemove(cache, key) ==
  LET i == LruIndex(cache, key) IN
  SubSeq(cache, 1, i - 1) \o SubSeq(cache, i + 1, Len(cache))

\* LruCache::contains: membership, the recency order is left alone.
LruContains(cache, key) == key \in LruKeys(cache)

\* A contains that promotes the entry it finds, as get does.
LruAfterContainsPromotes(cache, key) ==
  IF key \in {cache[i].key : i \in 1..Len(cache)}
  THEN SelectSeq(cache, LAMBDA x : x.key # key)
         \o SelectSeq(cache, LAMBDA x : x.key = key)
  ELSE cache

\* LruCache::contains: the cache after the call, as it was before it.
LruAfterContains(cache, key) == cache

\* LruCache::get on a key that is present: the value.
LruValue(cache, key) == cache[LruIndex(cache, key)].data

\* A get that reads like peek: the order is left alone.
LruPeek(cache, key) == cache

\* LruCache::get on a key that is present: the entry becomes the most
\* recently used.
LruPromote(cache, key) ==
  LruRemove(cache, key) \o <<cache[LruIndex(cache, key)]>>

\* A put that never evicts.
LruPutUnbounded(cache, key, data) ==
  LET e == [key |-> key, data |-> data] IN
  IF key \in {cache[i].key : i \in 1..Len(cache)}
  THEN SelectSeq(cache, LAMBDA x : x.key # key) \o <<e>>
  ELSE cache \o <<e>>

\* LruCache::put: overwrite and promote a present key; otherwise evict the
\* least recently used entry when the cache is full, then insert.
LruPut(cache, key, data) ==
  LET e == [key |-> key, data |-> data] IN
  IF LruContains(cache, key) THEN LruRemove(cache, key) \o <<e>>
  ELSE IF Len(cache) >= LRU_CAPACITY THEN Tail(cache) \o <<e>>
  ELSE cache \o <<e>>

\* The same moves on the list of keys by last touch.
TouchKey(order, key) == SelectSeq(order, LAMBDA k : k # key) \o <<key>>

----------------------------------------------------------------------------
(* The arithmetic of read_bytes.                                           *)

ChunkStart(s) == s \div CHUNK_SIZE

ChunkEnd(e) == e \div CHUNK_SIZE

\* "bytes={}-{}": chunk_start * CHUNK_SIZE and (chunk_end + 1) * CHUNK_SIZE.
RangeHeader(s, e) ==
  [first |-> ChunkStart(s) * CHUNK_SIZE, last |-> (ChunkEnd(e) + 1) * CHUNK_SIZE]

ChunkStartOffset(s) == s % CHUNK_SIZE

ChunkEndOffset(s, e) ==
  ((ChunkEnd(e) - ChunkStart(s)) * CHUNK_SIZE) + (e % CHUNK_SIZE)

\* data[start..end.min(data.len())] for the chunk-th piece of a response.
PieceStart(i) == i * CHUNK_SIZE

PieceEnd(data, i) == Min((i + 1) * CHUNK_SIZE, Len(data))

----------------------------------------------------------------------------
(* Initial state: empty tables, every thread idle. The origin holds each   *)
(* path of Paths with some length up to MaxLen, or not at all; it never    *)
(* holds the reserved path.                                                *)

NoCall == [op |-> "none", path |-> RESERVED, s |-> 0, e |-> 0]

NoRet == [kind |-> "none", val |-> <<>>]

NoResp == [kind |-> "none"]

NoNote ==
  [same |-> FALSE, prev |-> <<>>, ev |-> FALSE, memo |-> -1, lru0 |-> <<>>,
   race |-> {}]

\* No writer: open_write has given the thread none, or it was dropped.
NoWriter ==
  [state |-> "none", buf |-> 0, data |-> 0, is_flushed |-> TRUE,
   warned |-> FALSE, writes |-> 0, bytes |-> 0, flushes |-> 0]

NoKey == <<>>

Missing == [present |-> FALSE, len |-> 0]

\* "a" is a file of any length up to MaxLen; "b" is a one-chunk file or is
\* not on the origin; the reserved path never is.
OriginFile(p) ==
  IF p = "a" THEN [present : {TRUE}, len : 0..MaxLen]
  ELSE IF p = "b" THEN {Missing, [present |-> TRUE, len |-> CHUNK_SIZE - 1]}
  ELSE {Missing}

Init ==
  /\ origin \in [AllPaths -> UNION {OriginFile(p) : p \in AllPaths}]
  /\ \A p \in AllPaths : origin[p] \in OriginFile(p)
  /\ lru = <<>>
  /\ cacheLock = NoThread
  /\ poisoned = FALSE
  /\ lengths = [u \in {} |-> 0]
  /\ lengthsLock = NoThread
  /\ writer = [t \in Threads |-> NoWriter]
  /\ pc = [t \in Threads |-> "idle"]
  /\ call = [t \in Threads |-> NoCall]
  /\ range = [t \in Threads |-> <<0, 0>>]
  /\ chunk = [t \in Threads |-> 0]
  /\ acc = [t \in Threads |-> <<>>]
  /\ resp = [t \in Threads |-> NoResp]
  /\ ret = [t \in Threads |-> NoRet]
  /\ reqs = [t \in Threads |-> 0]
  /\ fault = [t \in Threads |-> FALSE]
  /\ note = [t \in Threads |-> NoNote]
  /\ touch = <<>>
  /\ evicted = NoKey
  /\ probes = [u \in Urls |-> 0]

----------------------------------------------------------------------------
(* How a call begins and ends.                                             *)

Set(f, t, v) == [f EXCEPT ![t] = v]

Url(t) == FormatUrl(call[t].path)

\* The range lies inside one chunk, and that chunk is the one last evicted.
OnEvicted(c) ==
  /\ c.op = "read_bytes"
  /\ c.s < c.e
  /\ c.s \div CHUNK_SIZE = (c.e - 1) \div CHUNK_SIZE
  /\ evicted = CacheKey(FormatUrl(c.path), c.s \div CHUNK_SIZE)

\* A thread that is idle makes the call c: its locals are fresh. `seen` is
\* the cache as the caller saw it before the call, when it looked.
Begin(t, c, at, seen) ==
  /\ pc[t] = "idle"
  /\ pc' = Set(pc, t, at)
  /\ call' = Set(call, t, c)
  /\ range' = Set(range, t, <<c.s, c.e>>)
  /\ chunk' = Set(chunk, t, ChunkStart(c.s))
  /\ acc' = Set(acc, t, <<>>)
  /\ resp' = Set(resp, t, NoResp)
  /\ reqs' = Set(reqs, t, 0)
  /\ fault' = Set(fault, t, FALSE)
  /\ ret' = Set(ret, t, NoRet)
  /\ note' = Set(note, t,
       LET same == c.op = "read_bytes" /\ c = call[t] /\ ret[t].kind = "ok" IN
       [same |-> same, prev |-> IF same THEN ret[t].val ELSE <<>>,
        ev |-> OnEvicted(c),
        memo |-> IF FormatUrl(c.path) \in DOMAIN lengths
                 THEN lengths[FormatUrl(c.path)] ELSE -1,
        lru0 |-> seen, race |-> {}])

\* The call returns: Ok(val) or Err.
Finish(t, kind, val) ==
  /\ pc' = Set(pc, t, "idle")
  /\ ret' = Set(ret, t, [kind |-> kind, val |-> val])
  /\ chunk' = Set(chunk, t, 0)
  /\ acc' = Set(acc, t, <<>>)
  /\ resp' = Set(resp, t, NoResp)

\* The thread panics at `why`: it unwinds and makes no further call.
Panic(t, why) ==
  /\ pc' = Set(pc, t, "panicked")
  /\ ret' = Set(ret, t, [kind |-> "panic", val |-> why])
  /\ chunk' = Set(chunk, t, 0)
  /\ acc' = Set(acc, t, <<>>)
  /\ resp' = Set(resp, t, NoResp)

\* A step inside a call: pc moves, the named locals are given by the caller.
Goto(t, at) == pc' = Set(pc, t, at) /\ UNCHANGED ret

----------------------------------------------------------------------------
(* HttpFileHandle::read_bytes                                              *)

\* What read_bytes hands back; atomic_read maps Ok to the bytes and Err to
\* OpenReadError::IoError, so both return through here.
RbReturn(t, kind, val) == Finish(t, kind, val)

\* A call to read_bytes(range) on the handle of `path`, `range` inside the
\* file and its ends among Offsets. A caller that is the only one (Solo)
\* notes the cache it leaves behind when it makes the call.
CallReadBytes(t, Offsets, Solo) ==
  \E p \in Paths, s \in Offsets, e \in Offsets :
    /\ origin[p].present
    /\ s <= e /\ e <= OriginLen(p)
    /\ Begin(t, [op |-> "read_bytes", path |-> p, s |-> s, e |-> e], "rb_check",
             IF Solo THEN lru ELSE <<>>)
    /\ UNCHANGED <<origin, lengthsLock, writer, lru, cacheLock, poisoned,
                   lengths, touch, evicted, probes>>

\* One turn of the presence loop: lock, contains, unlock.
RbCheck(t) ==
  /\ pc[t] = "rb_check"
  /\ cacheLock = NoThread
  /\ IF poisoned THEN Panic(t, "lock") /\ UNCHANGED lru
     ELSE /\ lru' = LruAfterContains(lru, CacheKey(Url(t), chunk[t]))
          /\ IF ~LruContains(lru, CacheKey(Url(t), chunk[t]))
               THEN Goto(t, "rb_send") /\ UNCHANGED <<chunk, acc, resp>>
             ELSE IF chunk[t] = ChunkEnd(range[t][2])
               THEN Goto(t, "rb_hit_lock") /\ UNCHANGED <<chunk, acc, resp>>
             ELSE /\ chunk' = Set(chunk, t, chunk[t] + 1)
                  /\ UNCHANGED <<pc, ret, acc, resp>>
  /\ UNCHANGED <<origin, lengthsLock, writer, cacheLock, poisoned, lengths,
                 call, range, reqs, fault, note, touch, evicted, probes>>

\* have_all_chunks: take the lock for the assembly.
RbHitLock(t) ==
  /\ pc[t] = "rb_hit_lock"
  /\ cacheLock = NoThread
  /\ IF poisoned THEN Panic(t, "lock") /\ UNCHANGED cacheLock
     ELSE /\ Goto(t, "rb_get")
          /\ cacheLock' = t
          /\ chunk' = Set(chunk, t, ChunkStart(range[t][1]))
          /\ UNCHANGED <<acc, resp>>
  /\ UNCHANGED <<origin, lengthsLock, writer, lru, poisoned, lengths, call,
                 range, reqs, fault, note, touch, evicted, probes>>

\* One turn of the assembly loop, cache.get(&key).unwrap(), under the lock;
\* after the last one the slice is cut and returned and the guard dropped.
RbGet(t) ==
  /\ pc[t] = "rb_get"
  /\ cacheLock = t
  /\ LET key == CacheKey(Url(t), chunk[t])
         s == range[t][1]
         e == range[t][2]
     IN
     IF ~LruContains(lru, key)
     THEN /\ Panic(t, "get")
          /\ poisoned' = TRUE
          /\ cacheLock' = NoThread
          /\ UNCHANGED <<lru, touch>>
     ELSE LET all == acc[t] \o LruValue(lru, key) IN
          /\ lru' = LruPromote(lru, key)
          /\ touch' = TouchKey(touch, key)
          /\ IF chunk[t] < ChunkEnd(e)
             THEN /\ chunk' = Set(chunk, t, chunk[t] + 1)
                  /\ acc' = Set(acc, t, all)
                  /\ UNCHANGED <<pc, ret, resp, cacheLock, poisoned>>
             ELSE /\ cacheLock' = NoThread
                  /\ IF SliceOk(all, ChunkStartOffset(s), ChunkEndOffset(s, e))
                     THEN /\ RbReturn(t, "ok",
                               Slice(all, ChunkStartOffset(s), ChunkEndOffset(s, e)))
                          /\ UNCHANGED poisoned
                     ELSE Panic(t, "slice") /\ poisoned' = TRUE
  /\ UNCHANGED <<origin, lengthsLock, writer, lengths, call, range, reqs,
                 fault, note, evicted, probes>>

\* The byte ranges of two read_bytes calls on one file overlap and differ.
Overlap(c, d) ==
  /\ c.op = "read_bytes" /\ d.op = "read_bytes"
  /\ c.path = d.path
  /\ <<c.s, c.e>> # <<d.s, d.e>>
  /\ c.s < d.e /\ d.s < c.e

\* The threads whose read_bytes has a fetch under way (sent, not inserted)
\* for a range overlapping the one thread t is about to fetch.
Racing(t) ==
  {u \in Threads \ {t} :
     pc[u] \in {"rb_wait", "rb_put_lock"} /\ Overlap(call[t], call[u])}

\* A send made with the cache lock taken and kept for the exchange.
RbSendUnderLock(t) ==
  /\ pc[t] = "rb_send"
  /\ cacheLock = NoThread
  /\ cacheLock' = t
  /\ Goto(t, "rb_wait")
  /\ resp' = Set(resp, t, [kind |-> "GET", url |-> Url(t),
                           first |-> RangeHeader(range[t][1], range[t][2]).first,
                           last |-> RangeHeader(range[t][1], range[t][2]).last])
  /\ reqs' = Set(reqs, t, reqs[t] + 1)
  /\ UNCHANGED <<origin, lengthsLock, writer, lru, poisoned, lengths, call,
                 range, chunk, acc, fault, note, touch, evicted, probes>>

\* A chunk is missing: one GET with the Range header, no lock held.
RbSend(t) ==
  /\ pc[t] = "rb_send"
  /\ Goto(t, "rb_wait")
  /\ resp' = Set(resp, t, [kind |-> "GET", url |-> Url(t),
                           first |-> RangeHeader(range[t][1], range[t][2]).first,
                           last |-> RangeHeader(range[t][1], range[t][2]).last])
  /\ reqs' = Set(reqs, t, reqs[t] + 1)
  /\ note' = [u \in Threads |->
               IF u = t THEN [note[u] EXCEPT !.race = Racing(t)]
               ELSE IF u \in Racing(t) THEN [note[u] EXCEPT !.race = @ \cup {t}]
               ELSE note[u]]
  /\ UNCHANGED <<origin, lengthsLock, writer, lru, cacheLock, poisoned,
                 lengths, call, range, chunk, acc, fault, touch, evicted,
                 probes>>

\* What can come back for a GET: send() fails (no connection, timeout), the
\* status is not 206 whatever the origin holds, the body cannot be read to
\* its end, or the origin's own answer arrives whole.
GetOutcomes == {"send_err", "bad_status", "body_err", "answer"}

RbRecv(t) ==
  /\ pc[t] = "rb_wait"
  /\ \E out \in GetOutcomes :
       LET r == OriginGet(resp[t].url, resp[t].first, resp[t].last) IN
       /\ out = "body_err" => r.status = 206
       /\ fault' = Set(fault, t, fault[t] \/ out # "answer")
       /\ IF out \in {"send_err", "bad_status"} \/ r.status # 206
          THEN RbReturn(t, "err", <<>>)
          ELSE IF out = "body_err" THEN Panic(t, "body")
          ELSE /\ Goto(t, "rb_put_lock")
               /\ acc' = Set(acc, t, r.body)
               /\ UNCHANGED <<chunk, resp>>
  /\ UNCHANGED <<origin, lengthsLock, writer, lru, cacheLock, poisoned,
                 lengths, call, range, reqs, note, touch, evicted, probes>>

\* The response is in: take the lock for the inserts.
RbPutLock(t) ==
  /\ pc[t] = "rb_put_lock"
  /\ cacheLock = NoThread
  /\ IF poisoned THEN Panic(t, "lock") /\ UNCHANGED cacheLock
     ELSE /\ Goto(t, "rb_put")
          /\ cacheLock' = t
          /\ chunk' = Set(chunk, t, 0)
          /\ UNCHANGED <<acc, resp>>
  /\ UNCHANGED <<origin, lengthsLock, writer, lru, poisoned, lengths, call,
                 range, reqs, fault, note, touch, evicted, probes>>

\* One turn of the insert loop, cache.put(key, piece), under the lock; after
\* the last one the guard is dropped and the requested slice returned.
RbPut(t) ==
  /\ pc[t] = "rb_put"
  /\ cacheLock = t
  /\ LET i == chunk[t]
         s == range[t][1]
         e == range[t][2]
         data == acc[t]
         key == CacheKey(Url(t), ChunkStart(s) + i)
         to == Min(ChunkEndOffset(s, e), Len(data))
     IN
     IF ~SliceOk(data, PieceStart(i), PieceEnd(data, i))
     THEN /\ Panic(t, "piece")
          /\ poisoned' = TRUE
          /\ cacheLock' = NoThread
          /\ UNCHANGED <<lru, touch, evicted>>
     ELSE LET next == LruPut(lru, key, Slice(data, PieceStart(i), PieceEnd(data, i)))
              gone == LruKeys(lru) \ LruKeys(next)
          IN
          /\ lru' = next
          /\ touch' = SelectSeq(TouchKey(touch, key), LAMBDA k : k \in LruKeys(next))
          /\ evicted' = IF gone # {} THEN CHOOSE k \in gone : TRUE
                        ELSE IF evicted = key THEN NoKey ELSE evicted
          /\ UNCHANGED poisoned
          /\ IF i < ChunkEnd(e) - ChunkStart(s)
             THEN /\ chunk' = Set(chunk, t, i + 1)
                  /\ UNCHANGED <<pc, ret, acc, resp, cacheLock>>
             ELSE /\ cacheLock' = NoThread
                  /\ IF SliceOk(data, ChunkStartOffset(s), to)
                     THEN RbReturn(t, "ok", Slice(data, ChunkStartOffset(s), to))
                     ELSE Panic(t, "slice")
  /\ UNCHANGED <<origin, lengthsLock, writer, lengths, call, range, reqs,
                 fault, note, probes>>

----------------------------------------------------------------------------
(* HasLen::len for HttpFileHandle, and its callers exists and atomic_read  *)

\* A lookup that never finds the entry.
LengthsHasNot(tbl, url) == FALSE

\* LENGTHS: PathBuf::from(url) -> usize, every access under its own mutex.
\* The paths here are plain file names, for which distinct urls are
\* distinct PathBufs.
\* lengths.get(..) is Some:
LengthsHas(tbl, url) == url \in DOMAIN tbl

\* lengths.insert(PathBuf::from(url), length)
LengthsInsert(tbl, url, n) ==
  [u \in DOMAIN tbl \cup {url} |-> IF u = url THEN n ELSE tbl[u]]

\* An exists that is true for a file of any length.
LenReturnAnyLength(t, n) ==
  IF call[t].op = "atomic_read"
  THEN /\ Goto(t, "rb_check")
       /\ range' = Set(range, t, <<0, n>>)
       /\ chunk' = Set(chunk, t, 0)
       /\ acc' = Set(acc, t, <<>>)
       /\ resp' = Set(resp, t, NoResp)
  ELSE /\ Finish(t, "ok", IF call[t].op = "exists" THEN n >= 0 ELSE n)
       /\ UNCHANGED range

\* len() has its value n: len returns it, exists returns n > 0, and
\* atomic_read goes on to read_bytes(0..n).
LenReturn(t, n) ==
  IF call[t].op = "atomic_read"
  THEN /\ Goto(t, "rb_check")
       /\ range' = Set(range, t, <<0, n>>)
       /\ chunk' = Set(chunk, t, ChunkStart(0))
       /\ acc' = Set(acc, t, <<>>)
       /\ resp' = Set(resp, t, NoResp)
  ELSE /\ Finish(t, "ok", IF call[t].op = "exists" THEN n > 0 ELSE n)
       /\ UNCHANGED range

CallLen(t) ==
  \E p \in AllPaths :
    /\ Begin(t, [op |-> "len", path |-> p, s |-> 0, e |-> 0], "len_lookup", <<>>)
    /\ UNCHANGED <<origin, lengthsLock, writer, lru, cacheLock, poisoned,
                   lengths, touch, evicted, probes>>

CallAtomicRead(t) ==
  \E p \in AllPaths :
    /\ Begin(t, [op |-> "atomic_read", path |-> p, s |-> 0, e |-> 0],
             "len_lookup", <<>>)
    /\ UNCHANGED <<origin, lengthsLock, writer, lru, cacheLock, poisoned,
                   lengths, touch, evicted, probes>>

\* lengths.lock().unwrap() of the lookup block. Nothing panics while this
\* mutex is held, so it is never poisoned.
LenLookup(t) ==
  /\ pc[t] = "len_lookup"
  /\ lengthsLock = NoThread
  /\ lengthsLock' = t
  /\ Goto(t, "len_get")
  /\ UNCHANGED <<origin, writer, lru, cacheLock, poisoned, lengths, call,
                 range, chunk, acc, resp, reqs, fault, note, touch, evicted,
                 probes>>

\* The lookup under the lock; the guard is dropped on the return and at the
\* end of the block alike.
LenGet(t) ==
  /\ pc[t] = "len_get"
  /\ lengthsLock = t
  /\ lengthsLock' = NoThread
  /\ IF LengthsHas(lengths, Url(t))
     THEN LenReturn(t, lengths[Url(t)])
     ELSE Goto(t, "len_send") /\ UNCHANGED <<range, chunk, acc, resp>>
  /\ UNCHANGED <<origin, writer, lru, cacheLock, poisoned, lengths, call, reqs,
                 fault, note, touch, evicted, probes>>

\* Not memoized: one HEAD, no lock held.
LenSend(t) ==
  /\ pc[t] = "len_send"
  /\ Goto(t, "len_wait")
  /\ resp' = Set(resp, t, [kind |-> "HEAD", url |-> Url(t), first |-> 0, last |-> 0])
  /\ reqs' = Set(reqs, t, reqs[t] + 1)
  /\ probes' = [probes EXCEPT ![Url(t)] = @ + 1]
  /\ UNCHANGED <<origin, lengthsLock, writer, lru, cacheLock, poisoned,
                 lengths, call, range, chunk, acc, fault, note, touch, evicted>>

\* What can come back for a HEAD: send() fails, the status is not 200, the
\* Content-Length header is missing or is no number, or the origin's own
\* answer arrives.
HeadOutcomes == {"send_err", "bad_status", "no_header", "bad_header", "answer"}

\* Every failure is a panic!() or an unwrap() of None/Err; success parses
\* the length and takes the lock of LENGTHS for the insert.
LenRecv(t) ==
  /\ pc[t] = "len_wait"
  /\ \E out \in HeadOutcomes :
       LET r == OriginHead(resp[t].url)
           n == ParseUsize(r.contentLength)
       IN
       /\ fault' = Set(fault, t, fault[t] \/ out # "answer")
       /\ IF out # "answer" \/ r.status # 200 \/ ~r.hasLen \/ n < 0
          THEN Panic(t, "probe")
          ELSE /\ Goto(t, "len_put_lock")
               /\ resp' = Set(resp, t, [kind |-> "length", url |-> resp[t].url,
                                        first |-> n, last |-> n])
               /\ UNCHANGED <<chunk, acc>>
  /\ UNCHANGED <<origin, lengthsLock, writer, lru, cacheLock, poisoned,
                 lengths, call, range, reqs, note, touch, evicted, probes>>

\* lengths.lock().unwrap() for the insert.
LenPutLock(t) ==
  /\ pc[t] = "len_put_lock"
  /\ lengthsLock = NoThread
  /\ lengthsLock' = t
  /\ Goto(t, "len_put")
  /\ UNCHANGED <<origin, writer, lru, cacheLock, poisoned, lengths, call,
                 range, chunk, acc, resp, reqs, fault, note, touch, evicted,
                 probes>>

\* The insert under the lock; the guard is dropped as len returns.
LenPut(t) ==
  /\ pc[t] = "len_put"
  /\ lengthsLock = t
  /\ lengthsLock' = NoThread
  /\ lengths' = LengthsInsert(lengths, resp[t].url, resp[t].first)
  /\ LenReturn(t, resp[t].first)
  /\ UNCHANGED <<origin, writer, lru, cacheLock, poisoned, call, reqs, fault,
                 note, touch, evicted, probes>>

----------------------------------------------------------------------------
(* HttpDirectory                                                           *)

\* A call that returns at once.
Immediate(t, c, kind, val) ==
  /\ pc[t] = "idle"
  /\ call' = Set(call, t, c)
  /\ range' = Set(range, t, <<0, 0>>)
  /\ reqs' = Set(reqs, t, 0)
  /\ fault' = Set(fault, t, FALSE)
  /\ note' = Set(note, t, NoNote)
  /\ Finish(t, kind, val)

\* An exists without the reserved-path case.
ExistsAlwaysProbes(t, p) ==
  Begin(t, [op |-> "exists", path |-> p, s |-> 0, e |-> 0], "len_lookup", <<>>)

\* exists: true for the reserved path, else len() > 0.
Exists(t, p) ==
  LET c == [op |-> "exists", path |-> p, s |-> 0, e |-> 0] IN
  IF p = RESERVED
  THEN Immediate(t, c, "ok", TRUE)
  ELSE Begin(t, c, "len_lookup", <<>>)

CallExists(t) ==
  \E p \in AllPaths :
    /\ Exists(t, p)
    /\ UNCHANGED <<origin, lengthsLock, writer, lru, cacheLock, poisoned,
                   lengths, touch, evicted, probes>>

\* delete: Ok for the reserved path, DeleteError::IoError for any other.
Delete(t, p) ==
  LET c == [op |-> "delete", path |-> p, s |-> 0, e |-> 0] IN
  IF p = RESERVED
  THEN Immediate(t, c, "ok", TRUE)
  ELSE Immediate(t, c, "err", <<>>)

CallDelete(t) ==
  \E p \in AllPaths :
    /\ Delete(t, p)
    /\ UNCHANGED <<origin, lengthsLock, writer, lru, cacheLock, poisoned,
                   lengths, touch, evicted, probes>>

----------------------------------------------------------------------------
(* VecWriter, and the WritePtr around it. open_write returns                *)
(* WritePtr::new(Box::new(VecWriter::new(path))); a WritePtr is a           *)
(* std::io::BufWriter over the boxed writer, so what the caller writes      *)
(* reaches VecWriter::write when the buffer is flushed, not before. A       *)
(* writer is modelled by the number of bytes it holds at each level: their  *)
(* values play no part. BufWriter's buffer is 8 KiB; here BUF_CAPACITY.     *)

BUF_CAPACITY == 2

\* VecWriter::new: an empty cursor, is_flushed: true.
NewWriter == [NoWriter EXCEPT !.state = "open"]

\* A write that leaves is_flushed as it is.
VecWriteKeepsFlag(w, k) == [w EXCEPT !.data = @ + k]

\* VecWriter::write: is_flushed = false, the bytes appended, Ok(buf.len()).
VecWrite(w, k) == [w EXCEPT !.is_flushed = FALSE, !.data = @ + k]

\* VecWriter::flush: is_flushed = true, Ok(()).
VecFlush(w) == [w EXCEPT !.is_flushed = TRUE]

\* VecWriter::terminate_ref: self.flush().
VecTerminateRef(w) == VecFlush(w)

\* A drop that warns whatever is_flushed says.
VecDropAlwaysWarns(w) == [w EXCEPT !.state = "dropped", !.warned = TRUE]

\* Drop for VecWriter: the warning is logged iff !is_flushed.
VecDrop(w) == [w EXCEPT !.state = "dropped", !.warned = ~w.is_flushed]

\* BufWriter::flush_buf: what is buffered is written to the inner writer, in
\* one write (VecWriter::write takes all of it); nothing when it is empty.
BufFlushBuf(w) ==
  IF w.buf > 0 THEN [VecWrite(w, w.buf) EXCEPT !.buf = 0] ELSE w

\* BufWriter::write of n bytes: buffered when they fit with room to spare;
\* else the buffer is flushed if they do not fit, and they are written
\* through when they are a whole buffer or more, buffered otherwise.
BufWrite(w, n) ==
  IF n < BUF_CAPACITY - w.buf THEN [w EXCEPT !.buf = @ + n]
  ELSE LET f == IF n > BUF_CAPACITY - w.buf THEN BufFlushBuf(w) ELSE w IN
       IF n >= BUF_CAPACITY THEN VecWrite(f, n) ELSE [f EXCEPT !.buf = @ + n]

\* BufWriter::flush: flush_buf, then the inner writer's flush.
BufFlush(w) == VecFlush(BufFlushBuf(w))

\* TerminatingWrite for the BufWriter: flush, then the inner terminate_ref.
BufTerminateRef(w) == VecTerminateRef(BufFlush(w))

\* Drop for the BufWriter: flush_buf, then the inner writer is dropped.
BufDrop(w) == VecDrop(BufFlushBuf(w))

\* An open_write that hands out a writer for any path.
OpenWriteAnything(t, p) ==
  /\ writer[t].state # "open"
  /\ Immediate(t, [op |-> "open_write", path |-> p, s |-> 0, e |-> 0], "ok", "writer")
  /\ writer' = Set(writer, t, NewWriter)

\* open_write: a fresh writer for the reserved path, OpenWriteError::IoError
\* for any other (dbg! only prints). A caller holds one writer at a time.
OpenWrite(t, p) ==
  LET c == [op |-> "open_write", path |-> p, s |-> 0, e |-> 0] IN
  IF p = RESERVED
  THEN /\ writer[t].state # "open"
       /\ Immediate(t, c, "ok", "writer")
       /\ writer' = Set(writer, t, NewWriter)
  ELSE /\ Immediate(t, c, "err", <<>>)
       /\ UNCHANGED writer

CallOpenWrite(t) ==
  \E p \in AllPaths :
    /\ OpenWrite(t, p)
    /\ UNCHANGED <<origin, lengthsLock, lru, cacheLock, poisoned, lengths,
                   touch, evicted, probes>>

\* The most bytes one write carries, and the most a writer is given in all.
MaxWrite == 2

MaxData == 3

\* A call on the writer the thread holds, returning at once. `writes` and
\* `bytes` count (up to 2, up to 1) the write calls and the bytes written
\* since the writer was opened or last flushed or terminated, `flushes`
\* (up to 1) the flush and terminate calls since it was opened.
WriterCall(t, op, n, w, val) ==
  /\ writer[t].state = "open"
  /\ Immediate(t, [op |-> op, path |-> RESERVED, s |-> n, e |-> 0], "ok", val)
  /\ writer' = Set(writer, t, w)
  /\ UNCHANGED <<origin, lengthsLock, lru, cacheLock, poisoned, lengths, touch,
                 evicted, probes>>

\* writer.write(buf), buf of n bytes: Ok(n).
WriterWrite(t) ==
  \E n \in 0..MaxWrite :
    /\ writer[t].data + writer[t].buf + n <= MaxData
    /\ WriterCall(t, "write", n,
         [BufWrite(writer[t], n) EXCEPT !.writes = Min(@ + 1, 2), !.bytes = Min(@ + n, 1)],
         n)

\* writer.flush(): Ok(()).
WriterFlush(t) ==
  WriterCall(t, "flush", 0,
    [BufFlush(writer[t]) EXCEPT !.writes = 0, !.bytes = 0, !.flushes = 1], TRUE)

\* writer.terminate(): terminate_ref, Ok(()), and the writer, consumed by
\* the call, is dropped.
WriterTerminate(t) ==
  WriterCall(t, "terminate", 0,
    BufDrop([BufTerminateRef(writer[t]) EXCEPT !.writes = 0, !.bytes = 0,
                                               !.flushes = 1]), TRUE)

\* The caller drops the writer.
WriterDrop(t) ==
  WriterCall(t, "drop", 0, BufDrop(writer[t]), TRUE)

----------------------------------------------------------------------------
(* The specifications: engine threads calling into the shared store.       *)

RbSteps(t) ==
  \/ RbCheck(t)
  \/ RbHitLock(t)
  \/ RbGet(t)
  \/ RbSend(t)
  \/ RbRecv(t)
  \/ RbPutLock(t)
  \/ RbPut(t)

ReadStep(t, Offsets, Solo) ==
  \/ CallReadBytes(t, Offsets, Solo)
  \/ RbSteps(t)

LenSteps(t) ==
  \/ LenLookup(t)
  \/ LenGet(t)
  \/ LenSend(t)
  \/ LenRecv(t)
  \/ LenPutLock(t)
  \/ LenPut(t)

LenStep(t) ==
  \/ CallLen(t)
  \/ CallExists(t)
  \/ LenSteps(t)

DirStep(t) ==
  \/ CallAtomicRead(t)
  \/ CallDelete(t)

WriterStep(t) ==
  \/ CallOpenWrite(t)
  \/ WriterWrite(t)
  \/ WriterFlush(t)
  \/ WriterTerminate(t)
  \/ WriterDrop(t)

\* One caller, any call, any range of any file: calls follow one another,
\* nothing interleaves.
NextSeq ==
  \/ ReadStep("t1", 0..MaxLen, TRUE)
  \/ LenStep("t1")
  \/ DirStep("t1")

SpecSeq == Init /\ [][NextSeq]_vars

\* Two threads call len and exists concurrently.
NextLens == \E t \in Pair : LenStep(t)

SpecLens == Init /\ [][NextLens]_vars

\* Two threads call read_bytes concurrently; the files are the longest
\* ones and the ranges read begin and end on chunk boundaries, those of t2
\* past the first chunk.
Boundaries == {o \in 0..MaxLen : o % CHUNK_SIZE = 0}

InitReads ==
  /\ Init
  /\ origin["a"].len = MaxLen
  /\ origin["b"].present

NextReads ==
  \/ ReadStep("t1", Boundaries, FALSE)
  \/ ReadStep("t2", Boundaries \ {0}, FALSE)

SpecReads == InitReads /\ [][NextReads]_vars

\* Three threads read the one file of the origin: t1 its tail, t2 its head
\* or all of it, t3 its first chunk only.
InitRace ==
  /\ Init
  /\ origin["a"].len = MaxLen
  /\ ~origin["b"].present

NextRace ==
  \/ ReadStep("t1", Boundaries \ {0}, FALSE)
  \/ ReadStep("t2", {0, CHUNK_SIZE * (MaxLen \div CHUNK_SIZE)}, FALSE)
  \/ ReadStep("t3", {0}, FALSE)

SpecRace == InitRace /\ [][NextRace]_vars

\* Two threads call atomic_read and len concurrently: both tables and both
\* locks are in use. The files are one of two chunks and one of one.
InitMix ==
  /\ Init
  /\ origin["a"].len = CHUNK_SIZE + 1
  /\ origin["b"].present

NextMix ==
  \E t \in Pair : CallAtomicRead(t) \/ CallLen(t) \/ LenSteps(t) \/ RbSteps(t)

SpecMix == InitMix /\ [][NextMix]_vars

\* One caller opens, writes, flushes and drops writers, deletes, and in
\* between reads the head of a file or asks for a length.
InitWrite ==
  /\ Init
  /\ origin["a"].len = MaxLen
  /\ origin["b"].present

NextWrite ==
  \/ WriterStep("t1")
  \/ CallDelete("t1")
  \/ ReadStep("t1", {0}, FALSE)
  \/ CallLen("t1")
  \/ LenSteps("t1")

SpecWrite == InitWrite /\ [][NextWrite]_vars

----------------------------------------------------------------------------
(* The claims.                                                             *)

\* A read_bytes call of thread t has ended (returned or panicked).
ReadEnded(t) == call[t].op = "read_bytes" /\ pc[t] \in {"idle", "panicked"}

\* C1: every read_bytes(s..e) of a valid range, 0 <= s <= e <= L, that the
\* origin answers itself (no transport or status fault) returns Ok with
\* exactly the e - s origin bytes [s, e), whatever the cache held before.
C1_ExactBytes ==
  \A t \in Threads :
    (ReadEnded(t) /\ ~fault[t])
      => /\ ret[t].kind = "ok"
         /\ Len(ret[t].val) = call[t].e - call[t].s
         /\ ret[t].val = OriginBytes(call[t].path, call[t].s, call[t].e)

\* The number of chunks read_bytes(s..e) probes, fetches and inserts.
SpanOf(t) == (call[t].e \div CHUNK_SIZE) - (call[t].s \div CHUNK_SIZE) + 1

\* The call of thread t repeats, with nothing in between, a read_bytes that
\* returned Ok, and has ended.
Repeated(t) == ReadEnded(t) /\ note[t].same

SameAgain(t) ==
  /\ reqs[t] = 0
  /\ ret[t].kind = "ok"
  /\ ret[t].val = note[t].prev

C3_NoTrailingChunk ==
  \A t \in Threads :
    (call[t].op = "read_bytes" /\ call[t].s < call[t].e
       /\ call[t].e % CHUNK_SIZE = 0)
      => LET last == (call[t].e - 1) \div CHUNK_SIZE IN
         /\ pc[t] \in {"rb_check", "rb_get"} => chunk[t] <= last
         /\ pc[t] = "rb_wait" => resp[t].last < call[t].e
         /\ pc[t] = "rb_put" => (call[t].s \div CHUNK_SIZE) + chunk[t] <= last

\* C4, first half: whenever a put drops an entry from the cache, the entry
\* dropped is the one least recently touched by a get or a put.
C4_EvictsLeastRecent ==
  [][\A k \in LruKeys(lru) \ LruKeys(lru') : touch # <<>> /\ k = Head(touch)]_vars

\* C4, second half: a read_bytes of a range lying inside the chunk last
\* evicted (and still absent) sends exactly one request.
C4_OneFetchAfterEviction ==
  \A t \in Threads : (ReadEnded(t) /\ note[t].ev) => reqs[t] = 1

\* C4: the evicted entry is the least recently touched one, and reading the
\* evicted chunk again costs exactly one request.
C4_LruEviction == C4_EvictsLeastRecent /\ []C4_OneFetchAfterEviction

\* The evicted chunk was read again, with one request, and returned.
C4_Witness ==
  \E t \in Threads :
    /\ ReadEnded(t) /\ note[t].ev
    /\ reqs[t] = 1 /\ ret[t].kind = "ok"
    /\ Len(lru) = LRU_CAPACITY

\* C5: the cache never holds more than LRU_CAPACITY entries, the chunks of
\* all files counted together.
C5_CapacityBound ==
  /\ Len(lru) <= LRU_CAPACITY
  /\ Cardinality(LruKeys(lru)) <= LRU_CAPACITY

\* A full cache holding chunks of two files, after an eviction.
C5_Witness ==
  /\ Len(lru) = LRU_CAPACITY
  /\ evicted # NoKey
  /\ \E i, j \in 1..Len(lru) : lru[i].key[1] # lru[j].key[1]

\* The metadata probe of the call of thread t was sent, was answered, and
\* left no length behind: it failed.
ProbeFailed(t) ==
  /\ call[t].op \in {"len", "exists", "atomic_read"}
  /\ reqs[t] >= 1
  /\ pc[t] \notin {"len_wait", "len_put_lock", "len_put"}
  /\ ~LengthsHas(lengths, Url(t))

\* C6: a failed length probe ends len, exists and atomic_read with an error
\* returned to the caller; the thread is not aborted.
C6_ProbeFailureIsAnError ==
  \A t \in Threads : ProbeFailed(t) => (pc[t] = "idle" /\ ret[t].kind = "err")

\* C7, the table: an entry of LENGTHS is never removed or changed.
C7_EntriesStay ==
  [][\A u \in DOMAIN lengths : u \in DOMAIN lengths' /\ lengths'[u] = lengths[u]]_vars

\* C7, the calls: a len() that returned left its value in LENGTHS, and a
\* len() begun with the length in LENGTHS sends no request and returns it.
C7_LaterCallsLookUp ==
  \A t \in Threads :
    call[t].op = "len" =>
      /\ (pc[t] = "idle" /\ ret[t].kind = "ok")
           => (LengthsHas(lengths, Url(t)) /\ lengths[Url(t)] = ret[t].val)
      /\ note[t].memo >= 0
           => /\ reqs[t] = 0
              /\ pc[t] \in {"len_lookup", "len_get", "idle"}
              /\ pc[t] = "idle" => ret[t] = [kind |-> "ok", val |-> note[t].memo]

\* C7: once len() has succeeded for a file, later len() calls return the
\* same value without a request, and the entry stays as it is.
C7_LengthMemoized == C7_EntriesStay /\ []C7_LaterCallsLookUp

\* A len() answered from LENGTHS after two racing probes of the file, both
\* of which inserted its length.
C7_Witness ==
  \E t \in Threads :
    /\ call[t].op = "len" /\ pc[t] = "idle"
    /\ note[t].memo > 0 /\ ret[t].kind = "ok" /\ reqs[t] = 0
    /\ probes[Url(t)] >= 2

\* C8: while every probe is answered successfully, no file is probed more
\* than once, however the len() calls of the threads interleave.
C8_SingleProbe ==
  (\A t \in Threads : pc[t] # "panicked" /\ ~fault[t])
    => \A u \in Urls : probes[u] <= 1

\* C9: a read_bytes whose fetch meets a transport failure, a timeout or a
\* status other than 206 returns an error after exactly one request.
C9_FetchFailureIsAnError ==
  \A t \in Threads :
    (ReadEnded(t) /\ fault[t]) => (ret[t].kind = "err" /\ reqs[t] = 1)

\* The call thread t begins (or has just made) is exists or delete on the
\* reserved path.
OnReserved(c) == c.op \in {"exists", "delete"} /\ c.path = RESERVED

\* C10: exists and delete on the reserved path return true / Ok at once,
\* send no request and leave the chunk cache and the length table alone.
C10_ReservedPath ==
  [][\A t \in Threads :
       (pc[t] = "idle" /\ OnReserved(call'[t]))
         => /\ pc'[t] = "idle"
            /\ ret'[t] = [kind |-> "ok", val |-> TRUE]
            /\ reqs'[t] = 0
            /\ UNCHANGED <<lru, lengths, probes, touch, cacheLock, poisoned>>]_vars

\* exists on the reserved path answered with both tables in use and the
\* file of that name missing from the origin.
C10_Witness ==
  \E t \in Threads :
    /\ pc[t] = "idle" /\ call[t].op = "exists" /\ call[t].path = RESERVED
    /\ ret[t] = [kind |-> "ok", val |-> TRUE]
    /\ lru # <<>> /\ DOMAIN lengths # {}
    /\ ~origin[RESERVED].present

\* The call thread t begins (or has just made) is open_write or delete on a
\* path other than the reserved one.
OnOther(c) == c.op \in {"open_write", "delete"} /\ c.path # RESERVED

\* C11: open_write and delete on any path but the reserved one return an
\* error at once, send no request, hand out no writer and leave the chunk
\* cache, the length table and their locks alone.
C11_UnsupportedPath ==
  [][\A t \in Threads :
       (pc[t] = "idle" /\ OnOther(call'[t]))
         => /\ pc'[t] = "idle"
            /\ ret'[t] = [kind |-> "err", val |-> <<>>]
            /\ reqs'[t] = 0
            /\ UNCHANGED <<lru, lengths, probes, touch, cacheLock, lengthsLock,
                           poisoned, writer>>]_vars

\* open_write refused for a file the origin serves, whose first chunk is in
\* the cache and whose length is in the table.
C11_Witness ==
  \E t \in Threads :
    /\ pc[t] = "idle" /\ call[t].op = "open_write" /\ call[t].path = "a"
    /\ ret[t].kind = "err"
    /\ LruContains(lru, CacheKey(Url(t), 0))
    /\ LengthsHas(lengths, Url(t))

\* The writer of thread t was dropped by its holder with no flush and no
\* terminate since open_write gave it.
DroppedUnflushed(t) ==
  /\ call[t].op = "drop" /\ pc[t] = "idle"
  /\ writer[t].state = "dropped"
  /\ writer[t].flushes = 0

\* C12 as stated: a writer of the reserved path dropped without a flush
\* logs the warning and raises no error, whatever was written to it, even
\* nothing.
C12_DropWarns ==
  \A t \in Threads :
    DroppedUnflushed(t) => (writer[t].warned /\ ret[t].kind = "ok")

\* C12 as amended: a writer of the reserved path dropped without a flush
\* raises no error, and logs the warning exactly when at least one byte was
\* written to it.
C12_DropWarnsOfBytes ==
  \A t \in Threads :
    DroppedUnflushed(t)
      => /\ ret[t].kind = "ok"
         /\ writer[t].warned <=> writer[t].bytes > 0

\* A writer dropped unflushed after two writes, the warning logged.
C12_Witness ==
  \E t \in Threads :
    DroppedUnflushed(t) /\ writer[t].writes = 2 /\ writer[t].warned

\* The chunks read_bytes(s..e) of thread t probes, fetches and inserts.
Span(t) == ChunkStart(call[t].s)..ChunkEnd(call[t].e)

\* The piece the call of thread t inserts for chunk c of its span, cut from
\* the body the origin sends for its range request.
WrittenPiece(t, c) ==
  LET r == RangeHeader(call[t].s, call[t].e)
      body == OriginGet(Url(t), r.first, r.last).body
      i == c - ChunkStart(call[t].s)
  IN Slice(body, PieceStart(i), PieceEnd(body, i))

\* C13, the bytes: a read_bytes that fetched while another thread's fetch
\* of an overlapping, different range of the file was under way returns
\* exactly the origin bytes of its own range.
C13_EachGetsItsBytes ==
  \A t \in Threads :
    (ReadEnded(t) /\ note[t].race # {} /\ ~fault[t])
      => /\ ret[t].kind = "ok"
         /\ ret[t].val = OriginBytes(call[t].path, call[t].s, call[t].e)

\* C13, the cache: when both calls have returned, each chunk both of them
\* inserted was given the same bytes by both, and holds them if it is
\* still in the cache.
C13_SameContent ==
  \A t, u \in Threads :
    (/\ t # u /\ u \in note[t].race /\ t \in note[u].race
     /\ ReadEnded(t) /\ ret[t].kind = "ok"
     /\ ReadEnded(u) /\ ret[u].kind = "ok")
      => \A c \in Span(t) \cap Span(u) :
           /\ WrittenPiece(t, c) = WrittenPiece(u, c)
           /\ LruContains(lru, CacheKey(Url(t), c))
                => LruValue(lru, CacheKey(Url(t), c)) = WrittenPiece(t, c)

\* C13: two read_bytes of overlapping, different ranges of one file that
\* both miss and both fetch each return the origin bytes of their own
\* range, and leave the same content under every key both wrote.
C13_BenignRace == C13_EachGetsItsBytes /\ C13_SameContent

\* Every chunk of the span of thread t's read_bytes was in the cache when
\* the call began.
AllPresentAtCall(t) ==
  \A c \in Span(t) :
    CacheKey(Url(t), c) \in {note[t].lru0[i].key : i \in 1..Len(note[t].lru0)}

\* C14: a read_bytes with a chunk of its span c0 ..= c1 missing sends one
\* request, for the bytes c0 * CHUNK_SIZE up to but not including
\* (c1 + 1) * CHUNK_SIZE; one with every chunk present sends none.
C14_CoalescedFetch ==
  \A t \in Threads :
    call[t].op = "read_bytes"
      => /\ reqs[t] <= 1
         /\ pc[t] = "rb_wait"
              => /\ resp[t].first = ChunkStart(call[t].s) * CHUNK_SIZE
                 /\ resp[t].last = ((ChunkEnd(call[t].e) + 1) * CHUNK_SIZE) - 1
         /\ (ReadEnded(t) /\ ~AllPresentAtCall(t)) => reqs[t] = 1
         /\ AllPresentAtCall(t) => reqs[t] = 0

\* The last chunk of a file of len > 0 bytes.
FinalChunk(len) == (len - 1) \div CHUNK_SIZE

\* C15: every entry (F, c) of the cache holds the origin bytes
\* c * CHUNK_SIZE up to min((c + 1) * CHUNK_SIZE, length(F)) of F: no more
\* than CHUNK_SIZE bytes, and fewer only when c is the final chunk of F.
C15_CacheCoherence ==
  \A i \in 1..Len(lru) :
    LET p == UrlPath(lru[i].key[1])
        c == lru[i].key[3]
        len == OriginLen(p)
    IN /\ lru[i].data
            = OriginBytes(p, c * CHUNK_SIZE, Min((c + 1) * CHUNK_SIZE, len))
       /\ Len(lru[i].data) <= CHUNK_SIZE
       /\ Len(lru[i].data) < CHUNK_SIZE => (len > 0 /\ c = FinalChunk(len))

\* C16: a thread with a GET or a HEAD in flight holds neither the lock of
\* the cache nor the lock of the length table, and no thread holds both.
C16_NoLockAcrossIO ==
  \A t \in Threads :
    /\ pc[t] \in {"rb_wait", "len_wait"} => (cacheLock # t /\ lengthsLock # t)
    /\ ~(cacheLock = t /\ lengthsLock = t)

\* While the GET of one thread is in flight another holds the cache lock,
\* and the length of the file is in the table.
C16_Witness ==
  \E t, u \in Threads :
    /\ t # u
    /\ pc[t] = "rb_wait" /\ resp[t].kind = "GET"
    /\ cacheLock = u
    /\ LengthsHas(lengths, Url(t))

\* C17: exists on a path other than the reserved one sends at most one
\* probe, none when the length is in the table, and, the length being
\* known or the probe answered, returns true for a file of one byte or
\* more and false for an empty one.
C17_ExistsIsNonEmpty ==
  \A t \in Threads :
    (call[t].op = "exists" /\ call[t].path # RESERVED)
      => /\ reqs[t] <= 1
         /\ note[t].memo >= 0 => reqs[t] = 0
         /\ pc[t] = "idle"
              => ret[t] = [kind |-> "ok", val |-> OriginLen(call[t].path) > 0]
         /\ (pc[t] = "panicked" /\ origin[call[t].path].present) => fault[t]

\* exists answered false for an empty file of the origin, after one probe.
C17_Witness ==
  \E t \in Threads :
    /\ call[t].op = "exists" /\ pc[t] = "idle"
    /\ origin[call[t].path].present /\ OriginLen(call[t].path) = 0
    /\ ret[t] = [kind |-> "ok", val |-> FALSE]
    /\ reqs[t] = 1

\* C18: a read_bytes that found every chunk of its span present finds each
\* of them again under the lock of the assembly: cache.get is never None
\* there, and the lock of the cache is never poisoned.
C18_CheckedChunksStay ==
  /\ ~poisoned
  /\ \A t \in Threads :
       /\ pc[t] = "rb_get" => LruContains(lru, CacheKey(Url(t), chunk[t]))
       /\ ret[t] # [kind |-> "panic", val |-> "get"]

\* A read_bytes of thread t ended in Err: send() failed or the status was
\* not 206.
FetchFailed(t) == ReadEnded(t) /\ ret[t].kind = "err" /\ reqs[t] = 1

\* C19: a read_bytes of a sole caller that ends in a fetch failure leaves
\* the cache as it was when the call was made: the same entries in the
\* same order of recency.
C19_FailedReadKeepsCache ==
  \A t \in Threads : FetchFailed(t) => lru = note[t].lru0

\* A read that found its first chunk in a full cache, as the least recently
\* used entry, missed the next and failed to fetch it.
C19_Witness ==
  \E t \in Threads :
    /\ FetchFailed(t)
    /\ Len(lru) = LRU_CAPACITY
    /\ lru[1].key = CacheKey(Url(t), ChunkStart(call[t].s))
    /\ ChunkEnd(call[t].e) > ChunkStart(call[t].s)

\* The call thread t begins (or has just made) is one on its writer.
OnWriter(c) == c.op \in {"write", "flush", "terminate", "drop"}

\* C20, the calls: write, flush and terminate (and drop) return Ok at once,
\* send no request and leave the cache, the length table and their locks
\* alone.
C20_WriterCallsStayLocal ==
  [][\A t \in Threads :
       (pc[t] = "idle" /\ OnWriter(call'[t]))
         => /\ pc'[t] = "idle"
            /\ ret'[t].kind = "ok"
            /\ reqs'[t] = 0
            /\ UNCHANGED <<lru, lengths, probes, touch, cacheLock, lengthsLock,
                           poisoned>>]_vars

\* C20 as stated, the warning: a dropped writer logged the warning iff a
\* write was made after it was opened or last flushed or terminated.
C20_WarnsIffWritten ==
  \A t \in Threads :
    writer[t].state = "dropped" => (writer[t].warned <=> writer[t].writes > 0)

\* C20 as stated.
C20_FlushStateMachine == C20_WriterCallsStayLocal /\ []C20_WarnsIffWritten

\* C20 as amended, the warning: a dropped writer logged the warning iff at
\* least one byte was written after it was opened or last flushed or
\* terminated.
C20_WarnsIffBytesWritten ==
  \A t \in Threads :
    writer[t].state = "dropped" => (writer[t].warned <=> writer[t].bytes > 0)

\* C20 as amended.
C20_FlushStateMachineOfBytes ==
  C20_WriterCallsStayLocal /\ []C20_WarnsIffBytesWritten

\* A writer written to, flushed, written to again and dropped, the warning
\* logged, with both tables in use.
C20_Witness ==
  \E t \in Threads :
    /\ writer[t].state = "dropped" /\ call[t].op = "drop"
    /\ writer[t].flushes = 1 /\ writer[t].bytes > 0 /\ writer[t].warned
    /\ writer[t].data > writer[t].bytes
    /\ lru # <<>> /\ DOMAIN lengths # {}

====
